---- MODULE Spec2Model ----
(***************************************************************************)
(* Attendance reconciliation script (src/main.py): a single-run batch job  *)
(* that reads the bot's attendance log, loads the roster sheet of the      *)
(* workbook, reconciles the scores and writes the sheet back.              *)
(*                                                                         *)
(* The workbook sheet, the attendance log and the two configuration        *)
(* constants (MAX_SCORE, OVERWRITE_MODE) are the inputs; Init draws them   *)
(* from bounded sets.  One action per method of TakeAttendance, plus       *)
(* main() and the re-invocation of the script on the files it left.        *)
(*                                                                         *)
(* Both input files exist and the workbook has the sheet "Tutorial N";     *)
(* every data row of the sheet is non-empty, ids and stored scores are     *)
(* integers (or, for a score, an empty cell).  An exception is recorded by *)
(* its message in err and ends the run in pc = "failed".                   *)
(***************************************************************************)
EXTENDS Integers, Sequences, FiniteSets, TLC

VARIABLES
    MAX_SCORE,          \* module constant MAX_SCORE (edited every week)
    OVERWRITE_MODE,     \* module constant OVERWRITE_MODE
    sheet,              \* the stored worksheet: [header, rows], cells by column
    log,                \* the attendance file: a sequence of lines
    pc,                 \* position of the run
    err,                \* message of the exception that ended the run
    student_attendance, \* run(): tokens returned by _load_student_attendance
    attendance_dict,    \* run(): roster index, in insertion order
    new_attendance,     \* run(): list returned by _update_attendance
    num,                \* run(): value returned by _write_tutorial_list
    warned,             \* usernames named in a WARNING line
    saves,              \* number of workbook.save calls so far
    runs                \* number of invocations of the script so far

vars == <<MAX_SCORE, OVERWRITE_MODE, sheet, log, pc, err, student_attendance,
          attendance_dict, new_attendance, num, warned, saves, runs>>

(***************************************************************************)
(* Bounds of the model.                                                    *)
(***************************************************************************)
MaxRows == 2        \* data rows of a sheet
MaxLines == 4       \* lines of the attendance log
MaxStored == 3      \* largest stored score
NegStored == 1      \* stored scores go down to -NegStored
MaxMaxScore == 2    \* MAX_SCORE ranges over 1..MaxMaxScore
MaxRuns == 2        \* invocations of the script on the same files

None == <<>>        \* an empty score cell (Python None); a value n is <<n>>
NoneLabel == "None" \* an empty header cell (Python None)
Unbound == 0        \* a column variable that was never assigned

RosterNames == {"#alice", "#bob"}
Sids == {100, 101}
StoredScores == {None} \cup {<<n>> : n \in (0 - NegStored)..MaxStored}
Labels == {"OrgDefinedId", "Username", "Tutorial 6", "Comments", NoneLabel}

(***************************************************************************)
(* Attendance log: _load_student_attendance                                *)
(***************************************************************************)
\* A line is the list line.split(",", 1): one or two raw fields.
LineKinds == << <<"#alice\n">>, <<"#bob\n">>, <<"#charlie\n">>,
                <<"12:05", "#bob\n">>, <<"12:05\n">> >>

\* x.startswith("#")
StartsWithHash(f) == f \in {"#alice\n", "#bob\n", "#charlie\n"}

\* str.strip()
Strip(f) ==
    CASE f = "#alice\n" -> "#alice"
      [] f = "#bob\n" -> "#bob"
      [] f = "#charlie\n" -> "#charlie"
      [] f = "12:05\n" -> "12:05"
      [] OTHER -> f

\* filter(lambda x: x.startswith("#"), fields)
HashFields(line) == SelectSeq(line, StartsWithHash)

\* next(filter(...)) raises StopIteration on a line with no such field
LineParses(line) == HashFields(line) # <<>>

ParseLine(line) == Strip(Head(HashFields(line)))

LogParses(lines) == \A i \in 1..Len(lines) : LineParses(lines[i])

ParseLog(lines) == [i \in 1..Len(lines) |-> ParseLine(lines[i])]

(***************************************************************************)
(* Header classification, shared by _load_tutorial_list and                *)
(* _write_tutorial_list (for i in range(1, 4): ...)                        *)
(***************************************************************************)
\* col_str.startswith("Tutorial")
StartsWithTutorial(label) == label \in {"Tutorial 6"}

\* The branch of the if/elif chain a header cell takes.
Classify(label) ==
    CASE label = "OrgDefinedId" -> "sid"
      [] label = "Username" -> "username"
      [] label = NoneLabel -> "AttributeError"    \* None.startswith
      [] StartsWithTutorial(label) -> "score"
      [] OTHER -> "Undefined column name"

IsError(kind) == kind \in {"AttributeError", "Undefined column name"}

\* The column variable after the loop: the last cell of that kind, if any.
LastCol(header, kind) ==
    LET hits == {i \in 1..3 : Classify(header[i]) = kind}
    IN IF hits = {} THEN Unbound ELSE CHOOSE i \in hits : \A j \in hits : j <= i

\* The exception the loop raises: that of the first offending cell.
HeaderError(header) ==
    LET bad == {i \in 1..3 : IsError(Classify(header[i]))}
    IN IF bad = {} THEN "none"
       ELSE Classify(header[CHOOSE i \in bad : \A j \in bad : i <= j])

ResolveColumns(header) ==
    [sid_col |-> LastCol(header, "sid"),
     username_col |-> LastCol(header, "username"),
     score_col |-> LastCol(header, "score")]

AllBound(cols) ==
    /\ cols.sid_col # Unbound
    /\ cols.username_col # Unbound
    /\ cols.score_col # Unbound

(***************************************************************************)
(* _load_tutorial_list                                                     *)
(***************************************************************************)
StudentAttendance(username, sid, score) ==
    [username |-> username, sid |-> sid, score |-> score]

\* Variant: a stored score above the cap is carried forward as it is.
LoadedScoreUnclamped(curr_score, overwrite_mode, max_score) ==
    IF overwrite_mode /\ curr_score # None /\ curr_score[1] > 0
    THEN curr_score[1]
    ELSE 0

\* Lines 150-161: the score of the record built from a stored cell.
LoadedScore(curr_score, overwrite_mode, max_score) ==
    IF overwrite_mode /\ curr_score # None /\ curr_score[1] > 0
    THEN (IF curr_score[1] <= max_score THEN curr_score[1] ELSE max_score)
    ELSE 0

\* Variant: the row just before is not looked at.
DuplicateAtSkippingPrevious(rows, username_col, i) ==
    \E j \in 1..(i - 2) : rows[j][username_col] = rows[i][username_col]

\* "key in tut_list_dict" for the row at index i: an earlier row has the key.
DuplicateAt(rows, username_col, i) ==
    \E j \in 1..(i - 1) : rows[j][username_col] = rows[i][username_col]

\* The kind of value the cells of column c hold: under a header that names
\* the three columns, what the header says; under any other header the rows
\* are laid out as under CanonicalHeader (id, username, score).
ColumnHolds(header, c) ==
    IF HeaderError(header) = "none" /\ AllBound(ResolveColumns(header))
    THEN Classify(header[c])
    ELSE IF c = 1 THEN "sid" ELSE IF c = 2 THEN "username" ELSE "score"

\* The exception the first data row raises when a column variable was never
\* assigned, in the order the loop body reads them: username_col (line 143),
\* score_col (line 148), then curr_score > 0 (line 150), which is evaluated
\* only with overwrite_mode and a non-empty cell and raises TypeError on a
\* string, then sid_col (lines 153, 159).
FirstRowError(sh, overwrite_mode) ==
    LET cols == ResolveColumns(sh.header)
    IN IF cols.username_col = Unbound \/ cols.score_col = Unbound
       THEN "UnboundLocalError"
       ELSE IF overwrite_mode /\ ColumnHolds(sh.header, cols.score_col) = "username"
       THEN "TypeError"
       ELSE "UnboundLocalError"

\* The exception _load_tutorial_list raises on the sheet, or "none".
LoadError(sh, overwrite_mode) ==
    LET cols == ResolveColumns(sh.header)
    IN IF HeaderError(sh.header) # "none" THEN HeaderError(sh.header)
       ELSE IF sh.rows = <<>> THEN "none"
       ELSE IF ~AllBound(cols) THEN FirstRowError(sh, overwrite_mode)
       ELSE IF \E i \in 1..Len(sh.rows) : DuplicateAt(sh.rows, cols.username_col, i)
            THEN "Duplicate username found"
       ELSE "none"

\* tut_list_dict, as the sequence of its values in insertion order.
LoadedDict(sh, overwrite_mode, max_score) ==
    LET cols == ResolveColumns(sh.header)
    IN [i \in 1..Len(sh.rows) |->
          StudentAttendance(sh.rows[i][cols.username_col],
                            sh.rows[i][cols.sid_col],
                            LoadedScore(sh.rows[i][cols.score_col],
                                        overwrite_mode, max_score))]

Keys(dict) == {dict[i].username : i \in 1..Len(dict)}

(***************************************************************************)
(* _update_attendance                                                      *)
(***************************************************************************)
\* set(usernames)
UsernameSet(usernames) == {usernames[i] : i \in 1..Len(usernames)}

\* usernames.count(username)
Count(usernames, username) ==
    Cardinality({i \in 1..Len(usernames) : usernames[i] = username})

\* Variant: the attendance count is taken even for a record at the cap.
NewScoreUncapped(old_score, marks, max_score) == marks

\* Variant: the attendance count is added to the old score, up to the cap.
NewScoreAdded(old_score, marks, max_score) ==
    IF old_score + marks < max_score THEN old_score + marks ELSE max_score

\* Lines 203-207.
NewScore(old_score, marks, max_score) ==
    IF old_score < max_score THEN marks ELSE max_score

\* Variant: the bound on the count is off by one.
InvalidCountAboveThree(usernames, dict, username) ==
    username \in Keys(dict) /\ Count(usernames, username) > 3

\* Line 197: the count check, made only for a username found in tutorial_dict.
InvalidCount(usernames, dict, username) ==
    username \in Keys(dict) /\ Count(usernames, username) > 2

\* tutorial_dict after the loop body has run for the usernames in done.
UpdatedDict(dict, usernames, done, max_score) ==
    [i \in 1..Len(dict) |->
        IF dict[i].username \in done
        THEN StudentAttendance(dict[i].username, dict[i].sid,
                 NewScore(dict[i].score, Count(usernames, dict[i].username),
                          max_score))
        ELSE dict[i]]

(***************************************************************************)
(* _write_tutorial_list                                                    *)
(***************************************************************************)
\* list.sort is stable: a record goes after every record whose sid is <= its own.
RECURSIVE InsertBySid(_, _)
InsertBySid(sorted, rec) ==
    IF sorted = <<>> THEN <<rec>>
    ELSE IF sorted[Len(sorted)].sid <= rec.sid THEN Append(sorted, rec)
    ELSE Append(InsertBySid(SubSeq(sorted, 1, Len(sorted) - 1), rec),
                sorted[Len(sorted)])

RECURSIVE SortBySid(_)
SortBySid(students) ==
    IF students = <<>> THEN <<>>
    ELSE InsertBySid(SortBySid(SubSeq(students, 1, Len(students) - 1)),
                     students[Len(students)])

\* Lines 253-255: a score of 0 is written as an empty cell.
ScoreCell(score) == IF score > 0 THEN <<score>> ELSE None

BlankRow == <<None, None, None>>

\* Lines 251-255: the three assignments to the cells of one row, in order.
WriteRow(row, cols, student) ==
    [c \in 1..3 |->
        IF c = cols.score_col THEN ScoreCell(student.score)
        ELSE IF c = cols.username_col THEN student.username
        ELSE IF c = cols.sid_col THEN student.sid
        ELSE row[c]]

\* The rows of the worksheet after the write loop.
WrittenRows(rows, cols, students) ==
    [i \in 1..(IF Len(students) > Len(rows) THEN Len(students) ELSE Len(rows)) |->
        IF i <= Len(students)
        THEN WriteRow(IF i <= Len(rows) THEN rows[i] ELSE BlankRow, cols, students[i])
        ELSE rows[i]]

\* The exception _write_tutorial_list raises, or "none".
WriteError(sh, students) ==
    IF HeaderError(sh.header) # "none" THEN HeaderError(sh.header)
    ELSE IF students # <<>> /\ ~AllBound(ResolveColumns(sh.header))
         THEN "UnboundLocalError"
    ELSE IF students = <<>> THEN "UnboundLocalError"   \* return row - 1
    ELSE "none"

\* workbook.save is reached: every earlier statement of the try block passed.
SaveReached(sh, students) ==
    /\ HeaderError(sh.header) = "none"
    /\ (students = <<>> \/ AllBound(ResolveColumns(sh.header)))

\* Line 260: row - 1, row being the last value of the enumerate loop.
WriteResult(students) == (Len(students) + 1) - 1

(***************************************************************************)
(* Inputs: the workbook sheet, the attendance log, the configuration.      *)
(***************************************************************************)
CanonicalHeader == <<"OrgDefinedId", "Username", "Tutorial 6">>

Headers == [1..3 -> Labels]

\* A data row with its values under the columns the header names; under a
\* header that does not name all three, in the canonical positions.
PlaceRow(header, username, sid, cell) ==
    [c \in 1..3 |->
        IF ColumnHolds(header, c) = "sid" THEN sid
        ELSE IF ColumnHolds(header, c) = "username" THEN username
        ELSE cell]

DataRows == [username : RosterNames, sid : Sids, cell : StoredScores]

\* Rows of one student id and one stored score: only the usernames vary.
PlainRows == [username : RosterNames, sid : {100}, cell : {<<1>>}]

RowLists(rows, n) == UNION {[1..k -> rows] : k \in 0..n}

DistinctNames(rowlist) ==
    \A i, j \in 1..Len(rowlist) :
        rowlist[i].username = rowlist[j].username => i = j

Sheet(header, rowlist) ==
    [header |-> header,
     rows |-> [i \in 1..Len(rowlist) |->
                 PlaceRow(header, rowlist[i].username, rowlist[i].sid,
                          rowlist[i].cell)]]

\* The lines that parse to a single username.
NameLines == {1, 2, 3}

\* All logs of up to n lines.
Logs(n) ==
    LET idx == UNION {[1..k -> 1..Len(LineKinds)] : k \in 0..n}
    IN {[i \in 1..Len(f) |-> LineKinds[f[i]]] : f \in idx}

\* Logs of up to n username lines, in the order of LineKinds: reconciliation
\* reads the log only through set(usernames) and usernames.count.
OrderedLogs(n) ==
    LET idx == UNION {[1..k -> NameLines] : k \in 0..n}
        ordered == {f \in idx : \A i \in 1..(Len(f) - 1) : f[i] <= f[i + 1]}
    IN {[i \in 1..Len(f) |-> LineKinds[f[i]]] : f \in ordered}

ShortLogs == {<<>>, <<LineKinds[1]>>}

StartOfRun ==
    /\ pc = "main"
    /\ err = "none"
    /\ student_attendance = <<>>
    /\ attendance_dict = <<>>
    /\ new_attendance = <<>>
    /\ num = 0
    /\ warned = {}
    /\ saves = 0
    /\ runs = 0

\* Well-formed rosters of any stored scores and ids, against logs of usernames.
InitRoster ==
    /\ \E rowlist \in RowLists(DataRows, MaxRows) :
          /\ DistinctNames(rowlist)
          /\ sheet = Sheet(CanonicalHeader, rowlist)
    /\ log \in OrderedLogs(MaxLines)

\* Rosters in which usernames repeat.
InitDuplicates ==
    /\ \E rowlist \in RowLists(PlainRows, MaxRows) :
          sheet = Sheet(CanonicalHeader, rowlist)
    /\ log \in ShortLogs

\* Any labels in the three header cells, in any order.
InitHeaders ==
    /\ \E header \in Headers, rowlist \in RowLists(PlainRows, 1) :
          sheet = Sheet(header, rowlist)
    /\ log \in ShortLogs

\* Any lines in the log, in any order.
InitLogs ==
    /\ \E rowlist \in RowLists(PlainRows, 1) :
          sheet = Sheet(CanonicalHeader, rowlist)
    /\ log \in Logs(MaxLines)

Init ==
    /\ MAX_SCORE \in 1..MaxMaxScore
    /\ OVERWRITE_MODE \in BOOLEAN
    /\ (InitRoster \/ InitDuplicates \/ InitHeaders \/ InitLogs)
    /\ StartOfRun

(***************************************************************************)
(* Actions                                                                 *)
(***************************************************************************)
\* main(): both files are found; without OVERWRITE_MODE the user is asked to
\* confirm and anything but "y" exits.
Main ==
    /\ pc = "main"
    /\ runs' = runs + 1
    /\ \E user_input \in (IF OVERWRITE_MODE THEN {"y"} ELSE {"y", "n"}) :
          pc' = IF user_input # "y" THEN "exited" ELSE "load_log"
    /\ UNCHANGED <<MAX_SCORE, OVERWRITE_MODE, sheet, log, err, student_attendance,
                   attendance_dict, new_attendance, num, warned, saves>>

\* Variant: the parse error is printed but not raised again; the run goes on
\* with no tokens.
LoadStudentAttendanceSwallowed ==
    /\ pc = "load_log"
    /\ student_attendance' = IF LogParses(log) THEN ParseLog(log) ELSE <<>>
    /\ pc' = "load_roster"
    /\ err' = IF LogParses(log) THEN err ELSE "StopIteration"
    /\ UNCHANGED <<MAX_SCORE, OVERWRITE_MODE, sheet, log, attendance_dict,
                   new_attendance, num, warned, saves, runs>>

\* run(), line 267: _load_student_attendance
LoadStudentAttendance ==
    /\ pc = "load_log"
    /\ IF LogParses(log)
       THEN /\ student_attendance' = ParseLog(log)
            /\ pc' = "load_roster"
            /\ err' = err
       ELSE /\ student_attendance' = student_attendance
            /\ pc' = "failed"
            /\ err' = "StopIteration"
    /\ UNCHANGED <<MAX_SCORE, OVERWRITE_MODE, sheet, log, attendance_dict,
                   new_attendance, num, warned, saves, runs>>

\* run(), line 269: _load_tutorial_list
LoadTutorialList ==
    /\ pc = "load_roster"
    /\ IF LoadError(sheet, OVERWRITE_MODE) = "none"
       THEN /\ attendance_dict' = LoadedDict(sheet, OVERWRITE_MODE, MAX_SCORE)
            /\ pc' = "update"
            /\ err' = err
       ELSE /\ attendance_dict' = attendance_dict
            /\ pc' = "failed"
            /\ err' = LoadError(sheet, OVERWRITE_MODE)
    /\ UNCHANGED <<MAX_SCORE, OVERWRITE_MODE, sheet, log, student_attendance,
                   new_attendance, num, warned, saves, runs>>

\* run(), line 271: _update_attendance.  The loop visits set(usernames) in
\* an arbitrary order; an invalid count raises after the usernames visited
\* before it have been handled.
UpdateAttendance ==
    /\ pc = "update"
    /\ LET username_set == UsernameSet(student_attendance)
           invalid == {u \in username_set :
                          InvalidCount(student_attendance, attendance_dict, u)}
       IN IF invalid = {}
          THEN /\ attendance_dict' = UpdatedDict(attendance_dict, student_attendance,
                                                 username_set, MAX_SCORE)
               /\ new_attendance' = attendance_dict'
               /\ warned' = username_set \ Keys(attendance_dict)
               /\ pc' = "write"
               /\ err' = err
          ELSE \E visited \in SUBSET (username_set \ invalid) :
               /\ attendance_dict' = UpdatedDict(attendance_dict, student_attendance,
                                                 visited, MAX_SCORE)
               /\ new_attendance' = new_attendance
               /\ warned' = visited \ Keys(attendance_dict)
               /\ pc' = "failed"
               /\ err' = "Invalid student attendance"
    /\ UNCHANGED <<MAX_SCORE, OVERWRITE_MODE, sheet, log, student_attendance,
                   num, saves, runs>>

\* run(), line 272: _write_tutorial_list
WriteTutorialList ==
    /\ pc = "write"
    /\ LET students == SortBySid(new_attendance)
       IN /\ new_attendance' = students
          /\ IF SaveReached(sheet, students)
             THEN /\ sheet' = [sheet EXCEPT !.rows =
                                  WrittenRows(sheet.rows, ResolveColumns(sheet.header),
                                              students)]
                  /\ saves' = saves + 1
             ELSE UNCHANGED <<sheet, saves>>
          /\ IF WriteError(sheet, students) = "none"
             THEN /\ num' = WriteResult(students)
                  /\ pc' = "report"
                  /\ err' = err
             ELSE /\ num' = num
                  /\ pc' = "failed"
                  /\ err' = WriteError(sheet, students)
    /\ UNCHANGED <<MAX_SCORE, OVERWRITE_MODE, log, student_attendance,
                   attendance_dict, warned, runs>>

\* run(), line 273: the success line
Report ==
    /\ pc = "report"
    /\ pc' = "done"
    /\ UNCHANGED <<MAX_SCORE, OVERWRITE_MODE, sheet, log, err, student_attendance,
                   attendance_dict, new_attendance, num, warned, saves, runs>>

\* The script is started again on the files a completed run left behind.
Rerun ==
    /\ pc = "done"
    /\ runs < MaxRuns
    /\ pc' = "main"
    /\ err' = "none"
    /\ student_attendance' = <<>>
    /\ attendance_dict' = <<>>
    /\ new_attendance' = <<>>
    /\ num' = 0
    /\ warned' = {}
    /\ UNCHANGED <<MAX_SCORE, OVERWRITE_MODE, sheet, log, saves, runs>>

Next ==
    \/ Main
    \/ LoadStudentAttendance
    \/ LoadTutorialList
    \/ UpdateAttendance
    \/ WriteTutorialList
    \/ Report
    \/ Rerun

Spec == Init /\ [][Next]_vars

(***************************************************************************)
(* Vocabulary of the properties, stated on the stored sheet and the log    *)
(* themselves.                                                             *)
(***************************************************************************)
\* The header names each of the three columns exactly once.
HeaderNamesAll(header) ==
    \A kind \in {"sid", "username", "score"} :
        Cardinality({c \in 1..3 : Classify(header[c]) = kind}) = 1

\* The column of the sheet whose header cell is of the kind.
ColumnOf(sh, kind) == CHOOSE c \in 1..3 : Classify(sh.header[c]) = kind

UsernameAt(sh, i) == sh.rows[i][ColumnOf(sh, "username")]

SidAt(sh, i) == sh.rows[i][ColumnOf(sh, "sid")]

\* The stored score of a row, an empty cell counting as 0.
StoredAt(sh, i) ==
    LET cell == sh.rows[i][ColumnOf(sh, "score")]
    IN IF cell = None THEN 0 ELSE cell[1]

SheetNames(sh) == {UsernameAt(sh, i) : i \in 1..Len(sh.rows)}

RepeatedName(sh) ==
    \E i, j \in 1..Len(sh.rows) : i # j /\ UsernameAt(sh, i) = UsernameAt(sh, j)

\* Occurrences of a username among the tokens.
Occurrences(tokens, username) ==
    Cardinality({k \in 1..Len(tokens) : tokens[k] = username})

Tokens(tokens) == {tokens[k] : k \in 1..Len(tokens)}

\* A stored score brought into 0..max.
Clamped(stored, max) ==
    IF stored < 0 THEN 0 ELSE IF stored > max THEN max ELSE stored

Reconciled == pc \in {"write", "report", "done"}

(***************************************************************************)
(* Properties                                                              *)
(***************************************************************************)
\* C1: scoring rule of _update_attendance.  When reconciliation completes,
\* every roster record whose username occurs m times among the tokens, m in
\* {1, 2}, has score m if its score before was below MAX_SCORE, and MAX_SCORE
\* if its score before was MAX_SCORE; the count replaces the old score and is
\* never added to it.
C1_ScoringRule ==
    [][(pc = "update" /\ pc' = "write") =>
         \A i \in 1..Len(attendance_dict) :
            LET old_score == attendance_dict[i].score
                m == Occurrences(student_attendance, attendance_dict[i].username)
            IN m \in {1, 2} =>
                 /\ Len(new_attendance') = Len(attendance_dict)
                 /\ new_attendance'[i].username = attendance_dict[i].username
                 /\ (old_score < MAX_SCORE => new_attendance'[i].score = m)
                 /\ (old_score = MAX_SCORE => new_attendance'[i].score = MAX_SCORE)]_vars

\* C1 witness: reconciliation has just completed on a roster of two students
\* who each checked in once; the one stored at the cap stays at the cap, the
\* one stored at 1 has score 1 (not 1 + 1).
C1_Witness ==
    /\ pc = "write"
    /\ MAX_SCORE = 2
    /\ OVERWRITE_MODE
    /\ Len(sheet.rows) = 2
    /\ \E i, j \in 1..2 :
          /\ Occurrences(student_attendance, UsernameAt(sheet, i)) = 1
          /\ StoredAt(sheet, i) = 2
          /\ new_attendance[i].score = 2
          /\ Occurrences(student_attendance, UsernameAt(sheet, j)) = 1
          /\ StoredAt(sheet, j) = 1
          /\ new_attendance[j].score = 1

\* C2: score range.  Whatever MAX_SCORE >= 1 is configured, every record
\* returned by _update_attendance has a score in 0..MAX_SCORE.
C2_ScoreRange ==
    Reconciled =>
        \A i \in 1..Len(new_attendance) :
            0 <= new_attendance[i].score /\ new_attendance[i].score <= MAX_SCORE

\* C3 as stated: whenever some username, in the roster or not, occurs more
\* than twice among the tokens, the run never gets past reconciliation.
C3_AnyInvalidCountAborts ==
    (\E u \in Tokens(student_attendance) : Occurrences(student_attendance, u) > 2)
        => ~Reconciled

\* C3, amended: when a username that is a key of the loaded roster occurs
\* more than twice among the tokens, reconciliation raises the invalid count
\* error, the run ends there and the workbook is not saved; no step of a run
\* up to and including reconciliation changes the stored sheet, and a failed
\* run takes no further step.
C3_KnownInvalidCountAborts ==
    [][/\ pc # "failed"
       /\ (pc \in {"main", "load_log", "load_roster", "update"} =>
              sheet' = sheet /\ saves' = saves)
       /\ (/\ pc = "update"
           /\ \E i \in 1..Len(attendance_dict) :
                 Occurrences(student_attendance, attendance_dict[i].username) > 2)
              => (pc' = "failed" /\ err' = "Invalid student attendance")]_vars

\* C3 witness: the run was aborted by an invalid count after another
\* username had already been reconciled in memory; nothing was saved.
C3_Witness ==
    /\ pc = "failed"
    /\ err = "Invalid student attendance"
    /\ runs = 1
    /\ saves = 0
    /\ \E i \in 1..Len(attendance_dict) :
          /\ Occurrences(student_attendance, attendance_dict[i].username) = 1
          /\ StoredAt(sheet, i) = 0
          /\ attendance_dict[i].score = 1

\* C4: unknown attendees are skipped.  Once reconciliation has passed over a
\* token whose username is not in the roster, the roster has the records of
\* the sheet and none for that username, a warning names it, and unless a
\* roster username had an invalid count the run goes on through the write
\* phase and does not fail.
C4_UnknownSkipped ==
    (warned # {} /\ err # "Invalid student attendance") =>
        /\ pc # "failed"
        /\ warned = Tokens(student_attendance) \ Keys(attendance_dict)
        /\ Len(attendance_dict) = Len(sheet.rows)

\* C4 on a roster that is not empty: the same statement holds.
C4_UnknownSkippedNonEmpty ==
    (warned # {} /\ err # "Invalid student attendance" /\ attendance_dict # <<>>) =>
        /\ pc # "failed"
        /\ warned = Tokens(student_attendance) \ Keys(attendance_dict)
        /\ Len(attendance_dict) = Len(sheet.rows)
        /\ (pc = "write" =>
              \A i \in 1..Len(attendance_dict) :
                 /\ attendance_dict[i].username = UsernameAt(sheet, i)
                 /\ attendance_dict[i].sid = SidAt(sheet, i))

\* C5 as stated: a run with an empty log on a non-empty roster leaves every
\* username's stored score (empty counting as 0) as it was when scores are
\* preserved, and at 0 in the reset mode.
C5_EmptyLogRoundTrip ==
    [][(pc = "write" /\ pc' = "report" /\ log = <<>> /\ sheet.rows # <<>>) =>
         /\ SheetNames(sheet') = SheetNames(sheet)
         /\ \A i \in 1..Len(sheet.rows), j \in 1..Len(sheet'.rows) :
               UsernameAt(sheet', j) = UsernameAt(sheet, i) =>
                  StoredAt(sheet', j) =
                     (IF OVERWRITE_MODE THEN StoredAt(sheet, i) ELSE 0)]_vars

\* C5, amended: a run with an empty log on a non-empty roster leaves every
\* username's stored score equal to its stored score before brought into
\* 0..MAX_SCORE (empty counting as 0) when scores are preserved, and at 0
\* (an empty cell) in the reset mode.
C5_EmptyLogRoundTripClamped ==
    [][(pc = "write" /\ pc' = "report" /\ log = <<>> /\ sheet.rows # <<>>) =>
         /\ SheetNames(sheet') = SheetNames(sheet)
         /\ Len(sheet'.rows) = Len(sheet.rows)
         /\ \A i \in 1..Len(sheet.rows), j \in 1..Len(sheet'.rows) :
               UsernameAt(sheet', j) = UsernameAt(sheet, i) =>
                  StoredAt(sheet', j) =
                     (IF OVERWRITE_MODE THEN Clamped(StoredAt(sheet, i), MAX_SCORE)
                      ELSE 0)]_vars

\* C5 witness: a first run with an empty log has saved a roster of two
\* students, one stored at the cap and one with an empty score.
C5_Witness ==
    /\ pc = "report"
    /\ runs = 1
    /\ log = <<>>
    /\ OVERWRITE_MODE
    /\ Len(sheet.rows) = 2
    /\ \E i, j \in 1..2 :
          StoredAt(sheet, i) = MAX_SCORE /\ sheet.rows[j][ColumnOf(sheet, "score")] = None

PhaseEdges ==
    {<<"main", "load_log">>, <<"main", "exited">>,
     <<"load_log", "load_roster">>, <<"load_log", "failed">>,
     <<"load_roster", "update">>, <<"load_roster", "failed">>,
     <<"update", "write">>, <<"update", "failed">>,
     <<"write", "report">>, <<"write", "failed">>,
     <<"report", "done">>, <<"done", "main">>}

\* C6: phase ordering of a run.  The phases follow one another in the order
\* load log, load roster, reconcile, write, report, each entered from the
\* one before and not again in the run; an error is recorded exactly when
\* the run has failed, and a failed run takes no further step; the workbook
\* is saved only by the write phase, once, after a log that parsed, a roster
\* without repeated usernames and a reconciliation without invalid count;
\* the report follows only a write phase that saved and raised nothing.
C6_PhaseOrder ==
    [][/\ <<pc, pc'>> \in PhaseEdges
       /\ (err' # "none") <=> (pc' = "failed")
       /\ (saves' # saves) =>
             /\ pc = "write"
             /\ saves' = saves + 1
             /\ \A k \in 1..Len(log) : \E f \in 1..Len(log[k]) : StartsWithHash(log[k][f])
             /\ ~RepeatedName(sheet)
             /\ \A i \in 1..Len(sheet.rows) :
                   Occurrences(student_attendance, UsernameAt(sheet, i)) <= 2
       /\ (pc' = "report") => (pc = "write" /\ saves' = saves + 1)
       /\ (pc' = "done") => (pc = "report" /\ saves = runs)]_vars

\* C6 witness: a first run went through every phase and printed its report.
C6_Witness ==
    /\ pc = "done"
    /\ runs = 1
    /\ saves = 1
    /\ err = "none"
    /\ num = 2
    /\ student_attendance # <<>>

\* C7: duplicate detection on load.  On a sheet whose header names the three
\* columns, _load_tutorial_list fails with the duplicate username error and
\* returns no index when two data rows carry the same username; an index it
\* returns has one record per data row, in row order, with unique usernames.
C7_DuplicateDetection ==
    [][(pc = "load_roster" /\ HeaderNamesAll(sheet.header)) =>
         /\ RepeatedName(sheet) =>
               /\ pc' = "failed"
               /\ err' = "Duplicate username found"
               /\ attendance_dict' = <<>>
         /\ (pc' = "update") =>
               /\ Len(attendance_dict') = Len(sheet.rows)
               /\ \A i \in 1..Len(sheet.rows) :
                     attendance_dict'[i].username = UsernameAt(sheet, i)
               /\ \A i, j \in 1..Len(attendance_dict') :
                     attendance_dict'[i].username = attendance_dict'[j].username
                        => i = j]_vars

\* C7 witness: the load failed on a sheet of two rows with the same username.
C7_Witness ==
    /\ pc = "failed"
    /\ err = "Duplicate username found"
    /\ attendance_dict = <<>>
    /\ Len(sheet.rows) = 2
    /\ UsernameAt(sheet, 1) = UsernameAt(sheet, 2)

\* C8: header schema check.  The run gets to reconciliation or beyond only
\* on a sheet whose first three header cells name each of the three columns
\* exactly once.
C8_HeaderSchema ==
    pc \in {"update", "write", "report", "done"} => HeaderNamesAll(sheet.header)

\* C9: save result.  On a sheet with a valid header, _write_tutorial_list
\* given n >= 0 records writes them to the n data rows in ascending id order,
\* saves the workbook, raises nothing and returns n.
C9_SaveResult ==
    [][(pc = "write" /\ HeaderNamesAll(sheet.header)) =>
         /\ pc' = "report"
         /\ saves' = saves + 1
         /\ num' = Len(new_attendance)
         /\ Len(sheet'.rows) = Len(new_attendance)
         /\ \A i \in 1..Len(new_attendance) :
               \E j \in 1..Len(sheet'.rows) :
                  /\ UsernameAt(sheet', j) = new_attendance[i].username
                  /\ SidAt(sheet', j) = new_attendance[i].sid
         /\ \A i, j \in 1..Len(sheet'.rows) :
               i < j => SidAt(sheet', i) <= SidAt(sheet', j)]_vars

\* C9 for n >= 1: the same statement holds of every non-empty list.
C9_SaveResultNonEmpty ==
    [][(pc = "write" /\ HeaderNamesAll(sheet.header) /\ new_attendance # <<>>) =>
         /\ pc' = "report"
         /\ saves' = saves + 1
         /\ num' = Len(new_attendance)
         /\ Len(sheet'.rows) = Len(new_attendance)
         /\ \A i \in 1..Len(new_attendance) :
               \E j \in 1..Len(sheet'.rows) :
                  /\ UsernameAt(sheet', j) = new_attendance[i].username
                  /\ SidAt(sheet', j) = new_attendance[i].sid
         /\ \A i, j \in 1..Len(sheet'.rows) :
               i < j => SidAt(sheet', i) <= SidAt(sheet', j)]_vars

\* C10: idempotence of a whole run.  With MAX_SCORE = 2 and OVERWRITE_MODE
\* set, once a run has completed, a further run on the same log does not
\* fail and none of its steps changes the stored sheet: every cell and the
\* row order stay as the first run left them.
C10_SecondRunIdempotent ==
    [][(runs >= 2 /\ MAX_SCORE = 2 /\ OVERWRITE_MODE) =>
         (sheet' = sheet /\ pc' # "failed" /\ pc' # "exited")]_vars

\* C10 witness: a second run has completed on a roster of two students, one
\* of whom checked in once and is stored with score 1, after two saves.
C10_Witness ==
    /\ pc = "done"
    /\ runs = 2
    /\ saves = 2
    /\ MAX_SCORE = 2
    /\ OVERWRITE_MODE
    /\ Len(sheet.rows) = 2
    /\ \E i \in 1..2 :
          /\ Occurrences(student_attendance, UsernameAt(sheet, i)) = 1
          /\ StoredAt(sheet, i) = 1

====
